---------------------------- MODULE Spec2Model ----------------------------
(***************************************************************************)
(* Verification model of quick-snippet-overlay.                            *)
(*                                                                         *)
(*   - src/src/search_engine.py   : SearchEngine (weighted fuzzy search)   *)
(*   - src/src/variable_handler.py: detect_variables, substitute_variables *)
(*                                                                         *)
(* Text is modelled as a sequence of one-character strings.  Scores are    *)
(* kept exactly: a similarity is a rational [n, d] and a rounded score is  *)
(* an integer number of hundredths (round(x, 2) * 100).                    *)
(***************************************************************************)
EXTENDS Integers, Sequences, FiniteSets, TLC

VARIABLES
    snippets,    \* SearchEngine.snippets: the record sequence held by reference
    query,       \* the query argument of the last search call
    threshold,   \* the threshold argument of the last search call
    results,     \* the list returned by the last search call
    scored,      \* number of _calculate_snippet_score calls made by the last search call
    called,      \* whether search has been called at all
    remembered,  \* empty, or one earlier search call kept by the caller: its arguments,
                 \* its result and how many calls (0, 1, 2 or more) were made since
    owner,       \* the host's list that was passed to SearchEngine, the edits the
                 \* host made to it since the last call and those before that call
    template,    \* how the content was written: its variables and literal pieces
    content,     \* the content argument of substitute_variables
    values,      \* the values argument of substitute_variables
    outcome,     \* what the last substitute_variables call did: returned or raised
    detected,    \* empty, or the list the last detect_variables call returned
    usage_counts,   \* UsageTracker.usage_counts: snippet id -> count
    frames,         \* per thread: where it is in increment, with its snippet_id
                    \* argument and its local current_count
    completed,      \* snippet id -> number of increment calls that have returned
    initial_counts, \* usage_counts as loaded at construction
    file,           \* the snippets file on disk: missing, unreadable, malformed,
                    \* without a "snippets" key, or parsed into its entries
    backups,        \* backup number k -> content of <snippets>.backup.00k
    manager_snippets,  \* SnippetManager.snippets
    last_good_state,   \* SnippetManager.last_good_state
    call,           \* the last call on the manager and what it returned or raised
    replaced,       \* whether the host has replaced the file since the last call
    clock,          \* time.time(), in tenths of a second
    last_reload,    \* DebouncedHandler.last_reload, in tenths of a second
    last_modified,  \* when the snippets file was last modified (0: never)
    callbacks,      \* how many times the watcher has invoked its callback
    hotkey_string,  \* HotkeyManager.hotkey_string, split at "+"
    current_keys,   \* HotkeyManager.current_keys
    signal,         \* the last keyboard event and whether hotkey_pressed was emitted
    lock_file,      \* LOCK_FILE: absent (empty) or holding one PID
    instances,      \* PID -> the application instance: where it is in
                    \* ensure_single_instance, whether it is alive, the PID it read
    before          \* what the file, the backups and the manager held when that
                    \* call started, and the list the last successful load returned

searchVars == <<snippets, query, threshold, results, scored, called, remembered, owner>>

varVars == <<template, content, values, outcome, detected>>

trackerVars == <<usage_counts, frames, completed, initial_counts>>

managerVars == <<file, backups, manager_snippets, last_good_state, call, replaced, before>>

watcherVars == <<clock, last_reload, last_modified, callbacks>>

lockVars == <<lock_file, instances>>

hotkeyVars == <<hotkey_string, current_keys, signal>>

hostVars == <<trackerVars, managerVars, watcherVars, lockVars, hotkeyVars>>

vars == <<searchVars, varVars, hostVars>>

(***************************************************************************)
(* Text helpers: str.lower(), str.strip(), substring test.                 *)
(***************************************************************************)
Lower(c) ==
    CASE c = "A" -> "a"
      [] c = "B" -> "b"
      [] c = "C" -> "c"
      [] OTHER   -> c

LowerStr(s) == [i \in 1..Len(s) |-> Lower(s[i])]

IsSpace(c) == c \in {" ", "\t", "\n"}

RECURSIVE LStrip(_)
LStrip(s) ==
    IF s = <<>> THEN <<>>
    ELSE IF IsSpace(Head(s)) THEN LStrip(Tail(s)) ELSE s

RECURSIVE RStrip(_)
RStrip(s) ==
    IF s = <<>> THEN <<>>
    ELSE IF IsSpace(s[Len(s)]) THEN RStrip(SubSeq(s, 1, Len(s) - 1)) ELSE s

Strip(s) == RStrip(LStrip(s))

\* Python's s[a:b] for 0 <= a, b (0-based, end exclusive).
Slice(s, a, b) == SubSeq(s, a + 1, IF b > Len(s) THEN Len(s) ELSE b)

\* Python's "sub in s".
Contains(s, sub) ==
    \E i \in 0..(Len(s) - Len(sub)) : Slice(s, i, i + Len(sub)) = sub

CharSet(s) == {s[i] : i \in 1..Len(s)}

(***************************************************************************)
(* Exact rationals [n |-> numerator, d |-> denominator], d > 0.            *)
(***************************************************************************)
Rat(n, d) == [n |-> n, d |-> d]

RatAdd(x, y) == Rat(x.n * y.d + y.n * x.d, x.d * y.d)

RatScale(k, x) == Rat(k * x.n, x.d)

RatLess(x, y) == x.n * y.d < y.n * x.d

RatEq(x, y) == x.n * y.d = y.n * x.d

\* round(x, 2) of a non-negative rational, in hundredths; an exact tie goes to
\* the even neighbour as Python's round does.
Round2(x) ==
    LET n100 == 100 * x.n
        q    == n100 \div x.d
        r    == n100 % x.d
    IN  IF 2 * r < x.d THEN q
        ELSE IF 2 * r > x.d THEN q + 1
        ELSE IF q % 2 = 0 THEN q ELSE q + 1

(***************************************************************************)
(* rapidfuzz.fuzz.partial_ratio, as called by _calculate_snippet_score.    *)
(***************************************************************************)
\* Length of a longest common subsequence.
RECURSIVE LCS(_, _)
LCS(a, b) ==
    IF a = <<>> \/ b = <<>> THEN 0
    ELSE IF Head(a) = Head(b) THEN 1 + LCS(Tail(a), Tail(b))
    ELSE LET x == LCS(Tail(a), b)
             y == LCS(a, Tail(b))
         IN  IF x >= y THEN x ELSE y

\* fuzz.ratio: normalized Indel similarity, 100 * 2*LCS / (len1 + len2).
ratio(s1, s2) ==
    IF Len(s1) + Len(s2) = 0 THEN Rat(100, 1)
    ELSE Rat(200 * LCS(s1, s2), Len(s1) + Len(s2))

RatMaxOf(S) ==
    IF S = {} THEN Rat(0, 1)
    ELSE CHOOSE x \in S : \A y \in S : ~RatLess(x, y)

\* The windows of the longer text that the shorter one is aligned against:
\* its short prefixes, every full-length window and the suffixes; a window is
\* skipped when its boundary character does not occur in the shorter text.
partial_ratio_impl(s1, s2) ==
    LET len1 == Len(s1)
        len2 == Len(s2)
        cs   == CharSet(s1)
        pre  == {ratio(s1, Slice(s2, 0, i)) :
                    i \in {k \in 1..(len1 - 1) : s2[k] \in cs}}
        mid  == {ratio(s1, Slice(s2, i, i + len1)) :
                    i \in {k \in 0..(len2 - len1 - 1) : s2[k + len1] \in cs}}
        suf  == {ratio(s1, Slice(s2, i, len2)) :
                    i \in {k \in (len2 - len1)..(len2 - 1) : s2[k + 1] \in cs}}
    IN  RatMaxOf(pre \cup mid \cup suf)

partial_ratio(s1, s2) ==
    IF s1 = <<>> /\ s2 = <<>> THEN Rat(100, 1)
    ELSE IF s1 = <<>> \/ s2 = <<>> THEN Rat(0, 1)
    ELSE IF Len(s1) < Len(s2) THEN partial_ratio_impl(s1, s2)
    ELSE IF Len(s1) > Len(s2) THEN partial_ratio_impl(s2, s1)
    ELSE RatMaxOf({partial_ratio_impl(s1, s2), partial_ratio_impl(s2, s1)})

(***************************************************************************)
(* Field weights (module constants of search_engine.py).                   *)
(***************************************************************************)
WEIGHT_NAME == 3

WEIGHT_DESCRIPTION == 2

WEIGHT_TAGS == 2

WEIGHT_CONTENT == 1

DEFAULT_THRESHOLD == 60

(***************************************************************************)
(* SearchEngine._calculate_snippet_score(snippet, query)                   *)
(***************************************************************************)
\* The similarity of the first tag in place of the best one.
max_tag_score_first(snippet, q) == partial_ratio(q, LowerStr(snippet.tags[1]))

\* max(tag_scores): the best similarity over the tags of the record.
max_tag_score(snippet, q) ==
    RatMaxOf({partial_ratio(q, LowerStr(snippet.tags[i])) :
                 i \in 1..Len(snippet.tags)})

\* A name score that forgets the field weight.
name_score_unweighted(snippet, q) == partial_ratio(q, LowerStr(snippet.name))

\* name_score * WEIGHT_NAME
name_score(snippet, q) ==
    RatScale(WEIGHT_NAME, partial_ratio(q, LowerStr(snippet.name)))

\* desc_score * WEIGHT_DESCRIPTION
description_score(snippet, q) ==
    RatScale(WEIGHT_DESCRIPTION, partial_ratio(q, LowerStr(snippet.description)))

\* max_tag_score * WEIGHT_TAGS
tags_score(snippet, q) == RatScale(WEIGHT_TAGS, max_tag_score(snippet, q))

\* content_score * WEIGHT_CONTENT
content_score(snippet, q) ==
    RatScale(WEIGHT_CONTENT, partial_ratio(q, LowerStr(snippet.content)))

\* The list "scores": one weighted similarity per non-empty field.
field_scores(snippet, q) ==
    (IF snippet.name # <<>> THEN <<name_score(snippet, q)>> ELSE <<>>)
    \o (IF snippet.description # <<>> THEN <<description_score(snippet, q)>> ELSE <<>>)
    \o (IF snippet.tags # <<>> THEN <<tags_score(snippet, q)>> ELSE <<>>)
    \o (IF snippet.content # <<>> THEN <<content_score(snippet, q)>> ELSE <<>>)

\* The tags weight counted whether or not the record has tags.
tags_weight_always(snippet) == WEIGHT_TAGS

\* The tags weight left out of the sum of weights.
tags_weight_dropped(snippet) == 0

\* The weight of the tags field in total_weight.
tags_weight(snippet) == IF snippet.tags # <<>> THEN WEIGHT_TAGS ELSE 0

\* "total_weight": the weights of the non-empty fields.
total_weight(snippet) ==
    (IF snippet.name # <<>> THEN WEIGHT_NAME ELSE 0)
    + (IF snippet.description # <<>> THEN WEIGHT_DESCRIPTION ELSE 0)
    + tags_weight(snippet)
    + (IF snippet.content # <<>> THEN WEIGHT_CONTENT ELSE 0)

RECURSIVE RatSum(_)
RatSum(xs) == IF xs = <<>> THEN Rat(0, 1) ELSE RatAdd(Head(xs), RatSum(Tail(xs)))

\* The returned score, in hundredths.
calculate_snippet_score(snippet, q) ==
    LET scores == field_scores(snippet, q)
        tw     == total_weight(snippet)
    IN  IF scores = <<>> THEN 0
        ELSE IF tw > 0
             THEN LET s == RatSum(scores) IN Round2(Rat(s.n, s.d * tw))
             ELSE 0

(***************************************************************************)
(* SearchEngine.search(query, threshold)                                   *)
(***************************************************************************)
\* A blank test without the strip: only the empty string is blank.
is_blank_unstripped(q) == q = <<>>

\* "not query or not query.strip()"
is_blank(q) == q = <<>> \/ Strip(q) = <<>>

\* "query.strip().lower()"
normalize(q) == LowerStr(Strip(q))

\* A strict comparison: a score equal to the threshold is dropped.
passes_strict(score, t) == score > 100 * t

\* The comparison the wrong way round.
passes_flipped(score, t) == score <= 100 * t

\* "score >= threshold" with the score in hundredths.
passes(score, t) == score >= 100 * t

\* The scan over self.snippets: append {snippet, score} for each passing record.
RECURSIVE scan(_, _, _)
scan(recs, q, t) ==
    IF recs = <<>> THEN <<>>
    ELSE LET score == calculate_snippet_score(Head(recs), q)
         IN  (IF passes(score, t)
                THEN <<[snippet |-> Head(recs), score |-> score]>>
                ELSE <<>>)
             \o scan(Tail(recs), q, t)

\* Position at which a stable descending sort places e in the sorted list rs:
\* after every entry whose score is >= e.score.
RECURSIVE insert_desc(_, _)
insert_desc(e, rs) ==
    IF rs = <<>> THEN <<e>>
    ELSE IF Head(rs).score >= e.score THEN <<Head(rs)>> \o insert_desc(e, Tail(rs))
    ELSE <<e>> \o rs

\* No sort at all: the entries stay in collection order.
sort_skipped(rs) == rs

\* results.sort(key=score, reverse=True): stable, descending.
RECURSIVE sort_desc(_)
sort_desc(rs) ==
    IF rs = <<>> THEN <<>>
    ELSE insert_desc(rs[Len(rs)], sort_desc(SubSeq(rs, 1, Len(rs) - 1)))

\* A result list kept on the engine and not cleared between calls.
search_accumulating(recs, q, t) ==
    IF is_blank(q) THEN <<>>
    ELSE sort_desc(results \o scan(recs, normalize(q), t))

search(recs, q, t) ==
    IF is_blank(q) THEN <<>>
    ELSE sort_desc(scan(recs, normalize(q), t))

\* How many records one search call scores.
scored_by(recs, q) == IF is_blank(q) THEN 0 ELSE Len(recs)

(***************************************************************************)
(* variable_handler.detect_variables(content)                              *)
(***************************************************************************)
NameChars ==
    {"a", "b", "c", "x", "y", "A", "B", "C", "0", "1", "_"}

\* First index k >= j with text[k] = ch, or 0.
RECURSIVE IndexFrom(_, _, _)
IndexFrom(text, ch, j) ==
    IF j > Len(text) THEN 0
    ELSE IF text[j] = ch THEN j
    ELSE IndexFrom(text, ch, j + 1)

\* First index k >= j with "}}" at k, or 0.
RECURSIVE FindClose(_, _)
FindClose(text, j) ==
    IF j + 1 > Len(text) THEN 0
    ELSE IF text[j] = "}" /\ text[j + 1] = "}" THEN j
    ELSE FindClose(text, j + 1)

StartsWith(text, i, prefix) ==
    /\ i + Len(prefix) - 1 <= Len(text)
    /\ SubSeq(text, i, i + Len(prefix) - 1) = prefix

\* The group of the greedy \{\{(.+)\}\}: the longest run that "}}" follows.
match_at_greedy(text, i) ==
    IF ~StartsWith(text, i, <<"{", "{">>) THEN <<>>
    ELSE LET closes == {j \in (i + 3)..(Len(text) - 1) :
                           text[j] = "}" /\ text[j + 1] = "}"}
         IN  IF closes = {} THEN <<>>
             ELSE LET j == CHOOSE c \in closes : \A d \in closes : d <= c
                  IN  IF "\n" \in CharSet(SubSeq(text, i + 2, j - 1)) THEN <<>>
                      ELSE <<SubSeq(text, i + 2, j - 1)>>

\* The group captured by \{\{(.+?)\}\} matched at position i, if it matches:
\* the shortest non-empty run without a line break that "}}" follows.
match_at(text, i) ==
    IF ~StartsWith(text, i, <<"{", "{">>) THEN <<>>
    ELSE LET j == FindClose(text, i + 3)
         IN  IF j = 0 THEN <<>>
             ELSE IF "\n" \in CharSet(SubSeq(text, i + 2, j - 1)) THEN <<>>
             ELSE <<SubSeq(text, i + 2, j - 1)>>

\* findall without the lookahead: a match consumes its text, so candidates
\* do not overlap.
RECURSIVE findall_from_consuming(_, _)
findall_from_consuming(text, i) ==
    IF i > Len(text) THEN <<>>
    ELSE LET m == match_at(text, i)
         IN  IF m = <<>> THEN findall_from_consuming(text, i + 1)
             ELSE m \o findall_from_consuming(text, i + Len(m[1]) + 4)

\* re.findall(r'(?=\{\{(.+?)\}\})', content): one candidate per start position.
RECURSIVE findall_from(_, _)
findall_from(text, i) ==
    IF i > Len(text) THEN <<>>
    ELSE match_at(text, i) \o findall_from(text, i + 1)

\* match.split(':', 1)[0].strip()
name_part(match) ==
    LET k == IndexFrom(match, ":", 1)
    IN  Strip(IF k = 0 THEN match ELSE SubSeq(match, 1, k - 1))

\* The default with surrounding whitespace removed.
default_part_stripped(match) ==
    LET k == IndexFrom(match, ":", 1)
    IN  IF k = 0 THEN <<>> ELSE <<Strip(SubSeq(match, k + 1, Len(match)))>>

\* parts[1] if len(parts) > 1 else None; None is <<>>, a default d is <<d>>.
default_part(match) ==
    LET k == IndexFrom(match, ":", 1)
    IN  IF k = 0 THEN <<>> ELSE <<SubSeq(match, k + 1, Len(match))>>

\* The name test reduced to the emptiness test.
valid_name_nonempty(name) == name # <<>>

\* The name test with the hyphen let through.
valid_name_hyphen(name) ==
    name # <<>> /\ \A k \in DOMAIN name : name[k] \in NameChars \cup {"-"}

\* re.match(r'^[a-zA-Z0-9_]+$', var_name)
valid_name(name) == name # <<>> /\ \A k \in DOMAIN name : name[k] \in NameChars

\* The loop without the seen-names test.
RECURSIVE detect_loop_repeating(_, _)
detect_loop_repeating(matches, seen) ==
    IF matches = <<>> THEN <<>>
    ELSE LET name == name_part(Head(matches))
         IN  IF ~valid_name(name)
               THEN detect_loop_repeating(Tail(matches), seen)
               ELSE <<[name |-> name, default |-> default_part(Head(matches))]>>
                    \o detect_loop_repeating(Tail(matches), seen \cup {name})

\* The loop over the matches, with the names seen so far.
RECURSIVE detect_loop(_, _)
detect_loop(matches, seen) ==
    IF matches = <<>> THEN <<>>
    ELSE LET name == name_part(Head(matches))
         IN  IF ~valid_name(name) \/ name \in seen
               THEN detect_loop(Tail(matches), seen)
               ELSE <<[name |-> name, default |-> default_part(Head(matches))]>>
                    \o detect_loop(Tail(matches), seen \cup {name})

detect_variables(text) == detect_loop(findall_from(text, 1), {})

(***************************************************************************)
(* variable_handler.substitute_variables(content, values)                  *)
(***************************************************************************)
\* The value test by truthiness: an empty provided value counts as missing.
RECURSIVE resolve_truthy(_, _)
resolve_truthy(variables, vals) ==
    IF variables = <<>> THEN [error |-> <<>>, substitutions |-> <<>>]
    ELSE LET var  == Head(variables)
             rest == resolve_truthy(Tail(variables), vals)
         IN  IF var.name \in DOMAIN vals /\ vals[var.name] # <<>>
               THEN [rest EXCEPT !.substitutions =
                        <<[name |-> var.name, value |-> vals[var.name]]>> \o @]
             ELSE IF var.default # <<>>
               THEN [rest EXCEPT !.substitutions =
                        <<[name |-> var.name, value |-> var.default[1]]>> \o @]
             ELSE [error |-> <<var.name>>, substitutions |-> <<>>]

\* A variable with neither value nor default is skipped instead of raising.
RECURSIVE resolve_lenient(_, _)
resolve_lenient(variables, vals) ==
    IF variables = <<>> THEN [error |-> <<>>, substitutions |-> <<>>]
    ELSE LET var  == Head(variables)
             rest == resolve_lenient(Tail(variables), vals)
         IN  IF var.name \in DOMAIN vals
               THEN [rest EXCEPT !.substitutions =
                        <<[name |-> var.name, value |-> vals[var.name]]>> \o @]
             ELSE IF var.default # <<>>
               THEN [rest EXCEPT !.substitutions =
                        <<[name |-> var.name, value |-> var.default[1]]>> \o @]
             ELSE rest

\* The loop that builds "substitutions" in declaration order; it raises at the
\* first variable that has neither a provided value nor a default.
RECURSIVE resolve(_, _)
resolve(variables, vals) ==
    IF variables = <<>> THEN [error |-> <<>>, substitutions |-> <<>>]
    ELSE LET var  == Head(variables)
             rest == resolve(Tail(variables), vals)
         IN  IF var.name \in DOMAIN vals
               THEN IF rest.error # <<>> THEN rest
                    ELSE [rest EXCEPT !.substitutions =
                            <<[name |-> var.name, value |-> vals[var.name]]>> \o @]
             ELSE IF var.default # <<>>
               THEN IF rest.error # <<>> THEN rest
                    ELSE [rest EXCEPT !.substitutions =
                            <<[name |-> var.name, value |-> var.default[1]]>> \o @]
             ELSE [error |-> <<var.name>>, substitutions |-> <<>>]

\* Length of the match of \{\{name(?::[^}]*)?\}\} at position i, 0 if none.
match_len(name, text, i) ==
    LET prefix == <<"{", "{">> \o name
        k      == i + Len(prefix)
    IN  IF ~StartsWith(text, i, prefix) THEN 0
        ELSE IF StartsWith(text, k, <<"}", "}">>) THEN Len(prefix) + 2
        ELSE IF StartsWith(text, k, <<":">>)
          THEN LET m == IndexFrom(text, "}", k + 1)
               IN  IF m # 0 /\ StartsWith(text, m, <<"}", "}">>)
                     THEN m + 2 - i
                     ELSE 0
        ELSE 0

\* re.sub(pattern, lambda m: replacement_value, result): leftmost matches,
\* left to right, not overlapping.
RECURSIVE re_sub_from(_, _, _, _)
re_sub_from(name, value, text, i) ==
    IF i > Len(text) THEN <<>>
    ELSE LET n == match_len(name, text, i)
         IN  IF n > 0 THEN value \o re_sub_from(name, value, text, i + n)
             ELSE <<text[i]>> \o re_sub_from(name, value, text, i + 1)

\* The loop over substitutions.items(), each applied to the running result.
RECURSIVE apply_substitutions(_, _)
apply_substitutions(subs, text) ==
    IF subs = <<>> THEN text
    ELSE apply_substitutions(Tail(subs),
                             re_sub_from(Head(subs).name, Head(subs).value, text, 1))

Returned(text) == [kind |-> "ok", returned |-> <<text>>, variable |-> <<>>]

\* ValueError("No value provided for variable '<name>' ...")
Raised(name) == [kind |-> "error", returned |-> <<>>, variable |-> <<name>>]

substitute_variables(text, vals) ==
    LET r == resolve(detect_variables(text), vals)
    IN  IF r.error # <<>> THEN Raised(r.error[1])
        ELSE Returned(apply_substitutions(r.substitutions, text))

(***************************************************************************)
(* Inputs.                                                                 *)
(***************************************************************************)
MaxSnippets == 2

Snippet(n, d, t, c) == [name |-> n, description |-> d, tags |-> t, content |-> c]

\* Records of the searched collections.  For the queries "ab" and "c" they
\* hold name matches, content-only matches, near matches ("ba"), fragments of
\* the query ("a", "b"), mixed case, empty fields and a record with no field.
RecordPool ==
    { Snippet(<<"A", "b">>, <<>>, <<>>, <<"c">>),
      Snippet(<<"a">>, <<>>, <<>>, <<"c", "a", "b">>),
      Snippet(<<"c">>, <<>>, <<>>, <<"a", "b">>),
      Snippet(<<"b", "a">>, <<>>, <<>>, <<"a", "b">>),
      Snippet(<<"c", "a", "b">>, <<>>, <<>>, <<"b">>),
      Snippet(<<>>, <<>>, <<>>, <<>>),
      Snippet(<<"a", "b">>, <<"b">>, <<<<"c">>, <<"a", "B">>>>, <<"b", "a">>),
      Snippet(<<"b", "a">>, <<"b">>, <<<<"c">>, <<"a", "B">>>>, <<"a", "b">>),
      Snippet(<<"b", "a">>, <<"c">>, <<<<"b">>>>, <<>>) }

\* The smaller pool of the specification that compares two calls.
RepeatPool ==
    { Snippet(<<"A", "b">>, <<>>, <<>>, <<"c">>),
      Snippet(<<"a">>, <<>>, <<>>, <<"c", "a", "b">>),
      Snippet(<<"c">>, <<>>, <<>>, <<"a", "b">>),
      Snippet(<<>>, <<>>, <<>>, <<>>),
      Snippet(<<"a", "b">>, <<"b">>, <<<<"c">>, <<"a", "B">>>>, <<"b", "a">>) }

\* Single records for the scoring specification: every combination of these
\* field values.
FieldPool ==
    { <<>>, <<"a", "b">>, <<"a">>, <<"c">>, <<"c", "a", "b">>, <<"B", "a">> }

DescriptionPool == { <<>>, <<"a", "b">>, <<"c">> }

TagsPool ==
    { <<>>, <<<<>>>>, <<<<"a", "b">>>>, <<<<"c">>>>,
      <<<<"c">>, <<"a", "B">>>>, <<<<"a", "B">>, <<"c">>>>,
      <<<<"b", "a">>, <<"b", "a">>>> }

RichRecords ==
    { Snippet(n, d, t, c) :
        n \in FieldPool, d \in DescriptionPool, t \in TagsPool, c \in FieldPool }

QueryPool ==
    { <<>>, <<" ", " ">>, <<" ", "A", "b">>, <<"c">> }

ThresholdPool == {0, DEFAULT_THRESHOLD, 100}

RECURSIVE SeqsUpTo(_, _)
SeqsUpTo(S, n) ==
    IF n = 0 THEN {<<>>}
    ELSE LET shorter == SeqsUpTo(S, n - 1)
         IN  shorter \cup {Append(s, x) : s \in {y \in shorter : Len(y) = n - 1}, x \in S}

MaxPieces == 3

\* A piece of content: a variable occurrence {{name}} or {{name:default}}, or
\* literal text.
Var(name, dflt) == [kind |-> "var", name |-> name, default |-> dflt, text |-> <<>>]

Text(t) == [kind |-> "text", name |-> <<>>, default |-> <<>>, text |-> t]

PieceText(p) ==
    IF p.kind = "text" THEN p.text
    ELSE <<"{", "{">> \o p.name
         \o (IF p.default = <<>> THEN <<>> ELSE <<":">> \o p.default[1])
         \o <<"}", "}">>

RECURSIVE Flatten(_)
Flatten(ps) == IF ps = <<>> THEN <<>> ELSE PieceText(Head(ps)) \o Flatten(Tail(ps))

\* {{a}}, {{a:x}}, {{a:}}, {{b}}, {{b:y}}, the text "x " and the text
\* {{a-b}}, whose name is no identifier.
PiecePool ==
    { Var(<<"a">>, <<>>), Var(<<"a">>, <<<<"x">>>>), Var(<<"a">>, <<<<>>>>),
      Var(<<"b">>, <<>>), Var(<<"b">>, <<<<"y">>>>),
      Text(<<"x", " ">>), Text(<<"{", "{", "a", "-", "b", "}", "}">>) }

ValueNames == { <<"a">>, <<"b">> }

ValuePool == { <<>>, <<"1">> }

ValueMaps == UNION { [D -> ValuePool] : D \in SUBSET ValueNames }

\* Occurrences written in further ways: {{a}}, {{a:x:y}}, {{a:{x}}, {{a:x}y}},
\* {{b}}, {{ a }}, {{a-b}} and the text "x ".
RenderPool ==
    { Var(<<"a">>, <<>>),
      Var(<<"a">>, <<<<"x", ":", "y">>>>),
      Var(<<"a">>, <<<<"{", "x">>>>),
      Var(<<"a">>, <<<<"x", "}", "y">>>>),
      Var(<<"b">>, <<>>),
      Var(<<" ", "a", " ">>, <<>>),
      Var(<<"a", "-", "b">>, <<>>),
      Text(<<"x", " ">>) }

RenderNames == { <<"a">>, <<"b">>, <<"a", "-", "b">> }

\* The values a caller may give for a key: "1", and for a also the text {{b}}.
RenderValues(name) ==
    IF name = <<"a">> THEN { <<"1">>, <<"{", "{", "b", "}", "}">> } ELSE { <<"1">> }

RenderValueMaps ==
    UNION { { f \in [D -> UNION {RenderValues(n) : n \in RenderNames}] :
                \A n \in D : f[n] \in RenderValues(n) } : D \in SUBSET RenderNames }

\* Contents for detect_variables: {{a}}, {{a:x}}, {{a:}}, {{b}}, {{b:y:z}},
\* {{ a : x }}, {{a:{b:x}}, the invalid {{a b}}, {{a-b}} and {{ }}, the
\* unmatched {{a, and the texts "{", "} " and "x ".
DetectPool ==
    { Var(<<"a">>, <<>>),
      Var(<<"a">>, <<<<"x">>>>),
      Var(<<"a">>, <<<<>>>>),
      Var(<<"b">>, <<>>),
      Var(<<"b">>, <<<<"y", ":", "z">>>>),
      Var(<<" ", "a", " ">>, <<<<" ", "x", " ">>>>),
      Var(<<"a">>, <<<<"{", "b", ":", "x">>>>),
      Var(<<"a", " ", "b">>, <<>>),
      Var(<<"a", "-", "b">>, <<>>),
      Var(<<" ">>, <<>>),
      Text(<<"{", "{", "a">>),
      Text(<<"{">>),
      Text(<<"}", " ">>),
      Text(<<"x", " ">>) }

(***************************************************************************)
(* UsageTracker: increment called from several threads.                    *)
(***************************************************************************)
Threads == {"t1", "t2"}

TrackerIds == {"s1", "s2"}

MaxIncrements == 3

\* dict.get(snippet_id, 0)
get_count(counts, snippet_id) ==
    IF snippet_id \in DOMAIN counts THEN counts[snippet_id] ELSE 0

\* counts[snippet_id] = value
set_count(counts, snippet_id, value) ==
    [k \in DOMAIN counts \cup {snippet_id} |->
        IF k = snippet_id THEN value ELSE counts[k]]

NotInIncrement == [pc |-> "idle", snippet_id |-> "", current_count |-> 0]

\* No UsageTracker is in play.
TrackerIdle ==
    /\ usage_counts = <<>>
    /\ frames = <<>>
    /\ completed = <<>>
    /\ initial_counts = <<>>

\* UsageTracker(stats_file) on a file with validated counts, no call made yet.
TrackerInit ==
    /\ usage_counts \in UNION { [D -> 0..1] : D \in SUBSET TrackerIds }
    /\ frames = [t \in Threads |-> NotInIncrement]
    /\ completed = [s \in TrackerIds |-> 0]
    /\ initial_counts = usage_counts

\* Thread t enters increment(snippet_id) and runs line 112: it reads the
\* current count into its local variable.
IncrementRead(t, snippet_id) ==
    /\ frames[t].pc = "idle"
    /\ Cardinality({u \in Threads : frames[u].pc # "idle"})
         + completed["s1"] + completed["s2"] < MaxIncrements
    /\ frames' = [frames EXCEPT ![t] =
                     [pc |-> "store", snippet_id |-> snippet_id,
                      current_count |-> get_count(usage_counts, snippet_id)]]
    /\ UNCHANGED <<usage_counts, completed, initial_counts>>

\* Thread t runs line 113, storing its local count plus one, and returns.
IncrementStore(t) ==
    /\ frames[t].pc = "store"
    /\ usage_counts' = set_count(usage_counts, frames[t].snippet_id,
                                 frames[t].current_count + 1)
    /\ completed' = [completed EXCEPT ![frames[t].snippet_id] = @ + 1]
    /\ frames' = [frames EXCEPT ![t] = NotInIncrement]
    /\ UNCHANGED initial_counts

(***************************************************************************)
(* SnippetManager: load, duplicate ids, backups, add and delete.           *)
(***************************************************************************)
\* The entry of a YAML file: the three required fields of a snippet.
Entry(id, name, text) == [id |-> id, name |-> name, content |-> text]

\* Contents of the snippets file.
Missing == [kind |-> "missing", entries |-> <<>>]

Unreadable == [kind |-> "unreadable", entries |-> <<>>]

Malformed == [kind |-> "malformed", entries |-> <<>>]

NoSnippetsKey == [kind |-> "nokey", entries |-> <<>>]

Parsed(entries) == [kind |-> "parsed", entries |-> entries]

\* The file _create_sample_file writes (its ids are distinct).
SampleFile ==
    Parsed(<<Entry(<<"p">>, <<"n">>, <<"c">>), Entry(<<"g">>, <<"n">>, <<"c">>)>>)

\* str(counter)
RECURSIVE int_to_text(_)
int_to_text(n) ==
    LET digit == <<"0", "1", "2", "3", "4", "5", "6", "7", "8", "9">>[(n % 10) + 1]
    IN  IF n < 10 THEN <<digit>> ELSE Append(int_to_text(n \div 10), digit)

\* f"{id}-{counter}"
numbered(id, counter) == id \o <<"-">> \o int_to_text(counter)

\* for field in required_fields: field in snippet_dict and snippet_dict[field]
validate_schema(entry) == entry.id # <<>> /\ entry.name # <<>> /\ entry.content # <<>>

\* _parse_snippets: the entries that pass the schema test, in file order.
RECURSIVE parse_snippets(_)
parse_snippets(entries) ==
    IF entries = <<>> THEN <<>>
    ELSE (IF validate_schema(Head(entries)) THEN <<Head(entries)>> ELSE <<>>)
         \o parse_snippets(Tail(entries))

\* The while loop of _fix_duplicate_ids: the first numbered id not yet seen.
RECURSIVE free_id(_, _, _)
free_id(id, counter, seen_ids) ==
    IF numbered(id, counter) \in seen_ids
      THEN free_id(id, counter + 1, seen_ids)
      ELSE numbered(id, counter)

\* The renaming that takes the first numbered id whatever was seen.
RECURSIVE fix_ids_unchecked(_, _)
fix_ids_unchecked(list, seen_ids) ==
    IF list = <<>> THEN <<>>
    ELSE LET snippet == Head(list)
             id == IF snippet.id \in seen_ids THEN numbered(snippet.id, 1)
                   ELSE snippet.id
         IN  <<[snippet EXCEPT !.id = id]>>
             \o fix_ids_unchecked(Tail(list), seen_ids \cup {id})

\* The for loop of _fix_duplicate_ids with the ids seen so far.
RECURSIVE fix_ids(_, _)
fix_ids(list, seen_ids) ==
    IF list = <<>> THEN <<>>
    ELSE LET snippet == Head(list)
             id == IF snippet.id \in seen_ids THEN free_id(snippet.id, 1, seen_ids)
                   ELSE snippet.id
         IN  <<[snippet EXCEPT !.id = id]>> \o fix_ids(Tail(list), seen_ids \cup {id})

fix_duplicate_ids(list) == fix_ids(list, {})

\* No SnippetManager is in play.
ManagerIdle ==
    /\ file = Missing
    /\ backups = <<>>
    /\ manager_snippets = <<>>
    /\ last_good_state = <<>>
    /\ call = [op |-> "none", result |-> "none", returned |-> <<>>]
    /\ replaced = FALSE
    /\ before = <<>>

\* What a call finds when it starts; last_success carries over.
Snapshot ==
    <<[file |-> file, backups |-> backups, snippets |-> manager_snippets,
       last_good_state |-> last_good_state,
       last_success |-> IF call.op = "load" /\ call.result = "loaded" THEN call.returned
                        ELSE IF before = <<>> THEN <<>>
                        ELSE before[1].last_success]>>

\* SnippetManager(file_path): nothing loaded yet.
ManagerConstructed(f) ==
    /\ file = f
    /\ backups = <<>>
    /\ manager_snippets = <<>>
    /\ last_good_state = <<>>
    /\ call = [op |-> "none", result |-> "none", returned |-> <<>>]
    /\ replaced = FALSE
    /\ before = <<>>

\* The host (an editor, another process) replaces the file; a replacement
\* the manager never saw is simply overwritten by the next one, so one
\* replacement between two calls stands for any number of them.
WriteFile(f) ==
    /\ ~replaced
    /\ file' = f
    /\ replaced' = TRUE
    /\ UNCHANGED <<backups, manager_snippets, last_good_state, call, before>>

\* The file load() reads: a missing file is replaced by the sample first.
file_to_load(f) == IF f.kind = "missing" THEN SampleFile ELSE f

\* What load() assigns and returns for the file it reads.
loaded(f) == fix_duplicate_ids(parse_snippets(f.entries))

\* load() that gives up on a bad file: it returns and keeps the empty list.
LoadForgetting ==
    LET f == file_to_load(file)
    IN  /\ file' = f
        /\ replaced' = FALSE
        /\ before' = Snapshot
        /\ IF f.kind = "parsed"
             THEN /\ manager_snippets' = loaded(f)
                  /\ last_good_state' = loaded(f)
                  /\ call' = [op |-> "load", result |-> "loaded", returned |-> loaded(f)]
             ELSE /\ call' = [op |-> "load", result |-> "fallback", returned |-> <<>>]
                  /\ manager_snippets' = <<>>
                  /\ UNCHANGED last_good_state
        /\ UNCHANGED backups

\* load(): on a file that parses, the snippets become the manager's state
\* and the last good state; otherwise the last good state is returned.
Load ==
    LET f == file_to_load(file)
    IN  /\ file' = f
        /\ replaced' = FALSE
        /\ before' = Snapshot
        /\ IF f.kind = "parsed"
             THEN /\ manager_snippets' = loaded(f)
                  /\ last_good_state' = loaded(f)
                  /\ call' = [op |-> "load", result |-> "loaded", returned |-> loaded(f)]
             ELSE /\ call' = [op |-> "load", result |-> "fallback",
                              returned |-> last_good_state]
                  /\ UNCHANGED <<manager_snippets, last_good_state>>
        /\ UNCHANGED backups

\* range(5, 0, -1): the numbered backups create_backup keeps.
MAX_BACKUPS == 5

\* backup_file.unlink()
unlink(bk, i) == [k \in DOMAIN bk \ {i} |-> bk[k]]

\* backup_file.rename(next_backup)
rename(bk, i, j) == [k \in (DOMAIN bk \ {i}) \cup {j} |-> IF k = j THEN bk[i] ELSE bk[k]]

\* One pass of the rotation loop that moves the oldest backup up as well.
rotate_step_keeping(bk, i) ==
    IF i \in DOMAIN bk THEN rename(bk, i, i + 1) ELSE bk

\* One pass of the rotation loop, for backup number i.
rotate_step(bk, i) ==
    IF i = MAX_BACKUPS
      THEN IF i \in DOMAIN bk THEN unlink(bk, i) ELSE bk
    ELSE IF i \in DOMAIN bk THEN rename(bk, i, i + 1)
    ELSE bk

\* The loop for i in range(5, 0, -1), from i down to 1.
RECURSIVE rotate(_, _)
rotate(bk, i) == IF i = 0 THEN bk ELSE rotate(rotate_step(bk, i), i - 1)

\* shutil.copy2(file_path, backup.001) when the file exists; copying a file
\* that cannot be read raises, which create_backup swallows.
copy_current(bk, f) ==
    IF f.kind \in {"missing", "unreadable"} THEN bk
    ELSE [k \in DOMAIN bk \cup {1} |-> IF k = 1 THEN f ELSE bk[k]]

create_backup(bk, f) == copy_current(rotate(bk, MAX_BACKUPS), f)

\* create_backup(): never raises.
CreateBackup ==
    /\ backups' = create_backup(backups, file)
    /\ call' = [op |-> "backup", result |-> "ok", returned |-> <<>>]
    /\ replaced' = FALSE
    /\ before' = Snapshot
    /\ UNCHANGED <<file, manager_snippets, last_good_state>>

\* The while loop of add_snippet: the id itself, or the first numbered one
\* that is not in the file.
RECURSIVE new_id(_, _, _)
new_id(original_id, counter, existing_ids) ==
    LET snippet_id == IF counter = 0 THEN original_id
                      ELSE numbered(original_id, counter)
    IN  IF snippet_id \in existing_ids
          THEN new_id(original_id, counter + 1, existing_ids)
          ELSE snippet_id

\* add_snippet(snippet_data): reads the file, appends the entry under a free
\* id and writes the file back; any exception gives False.
AddSnippet(entry) ==
    /\ replaced' = FALSE
    /\ before' = Snapshot
    /\ IF file.kind \in {"parsed", "nokey"}
         THEN /\ file' = Parsed(Append(file.entries,
                          [entry EXCEPT !.id = new_id(entry.id, 0,
                              {file.entries[k].id : k \in DOMAIN file.entries})]))
              /\ call' = [op |-> "add", result |-> "ok", returned |-> <<>>]
         ELSE /\ call' = [op |-> "add", result |-> "false", returned |-> <<>>]
              /\ UNCHANGED file
    /\ UNCHANGED <<backups, manager_snippets, last_good_state>>

\* delete_snippets(snippet_ids): loads, raises ValueError when an id is not
\* loaded, else writes the remaining snippets (IOError when it cannot).
DeleteSnippets(snippet_ids) ==
    LET f == file_to_load(file)
        current_snippets == IF f.kind = "parsed" THEN loaded(f) ELSE last_good_state
        existing_ids == {current_snippets[k].id : k \in DOMAIN current_snippets}
        remaining == SelectSeq(current_snippets, LAMBDA s : s.id \notin snippet_ids)
    IN  /\ replaced' = FALSE
        /\ before' = Snapshot
        /\ manager_snippets' = IF f.kind = "parsed" THEN loaded(f) ELSE manager_snippets
        /\ last_good_state' = current_snippets
        /\ IF ~(snippet_ids \subseteq existing_ids)
             THEN /\ file' = f
                  /\ call' = [op |-> "delete", result |-> "ValueError", returned |-> <<>>]
             ELSE IF f.kind = "unreadable"
             THEN /\ file' = f
                  /\ call' = [op |-> "delete", result |-> "IOError", returned |-> <<>>]
             ELSE /\ file' = Parsed(remaining)
                  /\ call' = [op |-> "delete", result |-> "ok", returned |-> <<>>]
        /\ UNCHANGED backups

(***************************************************************************)
(* SnippetManager.watch_file: DebouncedHandler.                            *)
(***************************************************************************)
\* debounce_delay = 0.5, in tenths of a second.
DEBOUNCE_DELAY == 5

MaxClock == 14

\* No watcher is in play.
WatcherIdle ==
    /\ clock = 0
    /\ last_reload = 0
    /\ last_modified = 0
    /\ callbacks = 0

\* watch_file(callback) at a time later than the delay after the epoch:
\* DebouncedHandler.__init__ sets last_reload = 0.
WatcherStarted ==
    /\ clock = DEBOUNCE_DELAY + 1
    /\ last_reload = 0
    /\ last_modified = 0
    /\ callbacks = 0

\* The test of on_modified.
reload_due(now, last) == now - last > DEBOUNCE_DELAY

\* The test of on_modified with the delay ignored.
reload_due_always(now, last) == now >= last

\* The snippets file is modified and on_modified handles the event: when
\* the last reload is more than the delay ago it invokes the callback,
\* which reloads the manager; otherwise the event is dropped.
Modify(f) ==
    /\ file' = f
    /\ last_modified' = clock
    /\ IF reload_due(clock, last_reload)
         THEN /\ last_reload' = clock
              /\ callbacks' = callbacks + 1
              /\ manager_snippets' = loaded(f)
              /\ last_good_state' = loaded(f)
              /\ call' = [op |-> "load", result |-> "loaded", returned |-> loaded(f)]
              /\ replaced' = FALSE
              /\ before' = Snapshot
         ELSE /\ replaced' = TRUE
              /\ UNCHANGED <<last_reload, callbacks, manager_snippets,
                             last_good_state, call, before>>
    /\ UNCHANGED <<clock, backups>>

\* A tenth of a second passes.
Tick ==
    /\ clock < MaxClock
    /\ clock' = clock + 1
    /\ UNCHANGED <<last_reload, last_modified, callbacks>>

(***************************************************************************)
(* main.ensure_single_instance and kill_existing_instances.                *)
(***************************************************************************)
\* The PIDs of an instance that may already run and of two that start.
OldPid == 1

StartingPids == {2, 3}

Instance(pc, alive, pid) == [pc |-> pc, alive |-> alive, pid |-> pid]

\* No application instance is in play.
LockIdle ==
    /\ lock_file = <<>>
    /\ instances = <<>>

\* Two instances are about to call ensure_single_instance; the lock file
\* may hold the PID of an older one, which is running or has died without
\* removing it.
LockInit ==
    \/ /\ lock_file = <<>>
       /\ instances = [p \in StartingPids |-> Instance("check", TRUE, 0)]
    \/ /\ lock_file = <<OldPid>>
       /\ \E alive \in BOOLEAN :
             instances = [p \in StartingPids \cup {OldPid} |->
                            IF p = OldPid THEN Instance("done", alive, 0)
                            ELSE Instance("check", TRUE, 0)]

Running(p) == p \in DOMAIN instances /\ instances[p].alive

At(p, pc) == Running(p) /\ instances[p].pc = pc

\* kill_existing_instances, line 45: without a lock file there is nothing
\* to kill and the instance goes on to write its own.
CheckLock(p) ==
    /\ At(p, "check")
    /\ instances' = [instances EXCEPT ![p].pc =
                        IF lock_file = <<>> THEN "write" ELSE "read"]
    /\ UNCHANGED lock_file

\* Lines 50-51: read the PID; a lock file that has disappeared is skipped.
ReadLock(p) ==
    /\ At(p, "read")
    /\ instances' = [instances EXCEPT ![p] =
                        IF lock_file = <<>> THEN Instance("remove", TRUE, 0)
                        ELSE Instance("kill", TRUE, lock_file[1])]
    /\ UNCHANGED lock_file

\* Lines 56-86: kill the recorded process, if there is one.
KillRecorded(p) ==
    /\ At(p, "kill")
    /\ instances' = [q \in DOMAIN instances |->
                        IF q = instances[p].pid /\ q # p
                          THEN [instances[q] EXCEPT !.alive = FALSE]
                        ELSE IF q = p THEN [instances[q] EXCEPT !.pc = "remove"]
                        ELSE instances[q]]
    /\ UNCHANGED lock_file

\* Lines 98-103: always remove the lock file.
RemoveLock(p) ==
    /\ At(p, "remove")
    /\ lock_file' = <<>>
    /\ instances' = [instances EXCEPT ![p].pc = "write"]

\* ensure_single_instance, lines 115-117: write the own PID.
WriteLock(p) ==
    /\ At(p, "write")
    /\ lock_file' = <<p>>
    /\ instances' = [instances EXCEPT ![p].pc = "done"]

\* cleanup_lock_file, registered with atexit once the instance is
\* established: a normal exit removes the lock file, whoever wrote it.
Exit(p) ==
    /\ At(p, "done")
    /\ lock_file' = <<>>
    /\ instances' = [instances EXCEPT ![p].alive = FALSE]

(***************************************************************************)
(* hotkey_manager.HotkeyManager.                                           *)
(***************************************************************************)
\* The keys the listener reports: pynput's names for the modifiers and the
\* space bar, and one character key.
Keys == {"ctrl_l", "ctrl_r", "shift", "shift_r", "alt_l", "alt_r", "space", "k"}

Event(kind, key, emitted) == [kind |-> kind, key |-> key, emitted |-> emitted]

\* No hotkey manager exists.
HotkeyIdle ==
    /\ hotkey_string = <<>>
    /\ current_keys = {}
    /\ signal = Event("none", "", FALSE)

\* HotkeyManager(hotkey_string): nothing is held yet.
HotkeyConstructed(parts) ==
    /\ hotkey_string = parts
    /\ current_keys = {}
    /\ signal = Event("none", "", FALSE)

\* "word" in self.hotkey_string.lower(), for a word that is a whole part.
in_hotkey_string(word) == \E i \in 1..Len(hotkey_string) : hotkey_string[i] = word

\* _is_hotkey_pressed: both branches return the same test for
\* ctrl, shift and space.
is_hotkey_pressed(keys) ==
    LET has_ctrl  == "ctrl_l" \in keys \/ "ctrl_r" \in keys
        has_shift == "shift" \in keys \/ "shift_r" \in keys
        has_space == "space" \in keys
    IN  IF in_hotkey_string("ctrl") /\ in_hotkey_string("shift")
           /\ in_hotkey_string("space")
          THEN has_ctrl /\ has_shift /\ has_space
          ELSE has_ctrl /\ has_shift /\ has_space

\* _on_press: record the key, then emit if the hotkey is pressed.
OnPress(key) ==
    /\ hotkey_string # <<>>
    /\ current_keys' = current_keys \cup {key}
    /\ signal' = Event("press", key, is_hotkey_pressed(current_keys \cup {key}))
    /\ UNCHANGED hotkey_string

\* _on_release: forget the key.
OnRelease(key) ==
    /\ hotkey_string # <<>>
    /\ current_keys' = current_keys \ {key}
    /\ signal' = Event("release", key, FALSE)
    /\ UNCHANGED hotkey_string

HostIdle == TrackerIdle /\ ManagerIdle /\ WatcherIdle /\ LockIdle /\ HotkeyIdle

(***************************************************************************)
(* The search state machine.                                               *)
(***************************************************************************)
\* No substitute_variables or detect_variables call is in play.
VarIdle ==
    /\ template = <<>>
    /\ content = <<>>
    /\ values = <<>>
    /\ outcome = [kind |-> "none", returned |-> <<>>, variable |-> <<>>]
    /\ detected = <<>>

Owner(recs, pending, seen) == [list |-> recs, pending |-> pending, seen |-> seen]

\* The engine holding a copy made at construction: the host's edits of its
\* list do not reach it.
kept_by_copy(engine_list, host_list) == engine_list

\* self.snippets = snippets: the engine's attribute and the host's list are
\* one object, so the attribute reads as the host's list does.
kept_by_reference(engine_list, host_list) == host_list

\* The state right after SearchEngine(recs): no call made yet.
Constructed(recs) ==
    /\ snippets = recs
    /\ query = <<>>
    /\ threshold = DEFAULT_THRESHOLD
    /\ results = <<>>
    /\ scored = 0
    /\ called = FALSE
    /\ remembered = <<>>
    /\ owner = Owner(recs, <<>>, <<>>)
    /\ VarIdle
    /\ HostIdle

SearchInit == \E recs \in SeqsUpTo(RecordPool, MaxSnippets) : Constructed(recs)

RepeatInit == \E recs \in SeqsUpTo(RepeatPool, MaxSnippets) : Constructed(recs)

ScoreInit == \E r \in RichRecords : Constructed(<<r>>)

\* Collections for the scoring of tags: one record under several tag lists.
MaxTags == 2

TagPool == { <<"a", "b">>, <<"c">>, <<"b", "a">>, <<"a", "B">> }

TagLists == SeqsUpTo(TagPool, MaxTags) \ {<<>>}

TagBases ==
    { Snippet(<<"a", "b">>, <<>>, <<>>, <<"c">>),
      Snippet(<<"c">>, <<"b">>, <<>>, <<>>),
      Snippet(<<>>, <<>>, <<>>, <<>>) }

Reverse(s) == [i \in 1..Len(s) |-> s[Len(s) + 1 - i]]

\* The record with the tags as given, reversed, and with the first one
\* repeated at the end, followed by the record under each tag alone.
TagFamily(base, tags) ==
    << [base EXCEPT !.tags = tags],
       [base EXCEPT !.tags = Reverse(tags)],
       [base EXCEPT !.tags = tags \o <<tags[1]>>] >>
    \o [i \in 1..Len(tags) |-> [base EXCEPT !.tags = <<tags[i]>>]]

TagsInit ==
    \E base \in TagBases, tags \in TagLists : Constructed(TagFamily(base, tags))

Search(q, t) ==
    /\ query' = q
    /\ threshold' = t
    /\ results' = search(snippets, q, t)
    /\ scored' = scored_by(snippets, q)
    /\ called' = TRUE
    /\ remembered' = [k \in DOMAIN remembered |->
                        [remembered[k] EXCEPT
                            !.calls_since = IF @ < 2 THEN @ + 1 ELSE @]]
    /\ owner' = Owner(owner.list, <<>>, owner.pending)
    /\ UNCHANGED snippets

\* The host appends a record to its list.
HostAppend(r) ==
    /\ owner.pending = <<>>
    /\ Len(owner.list) < MaxSnippets
    /\ owner' = Owner(Append(owner.list, r),
                      <<[op |-> "append", record |-> r]>>, owner.seen)
    /\ snippets' = kept_by_reference(snippets, Append(owner.list, r))
    /\ UNCHANGED <<query, threshold, results, scored, called, remembered>>

\* The host removes the i-th record of its list.
HostRemove(i) ==
    /\ owner.pending = <<>>
    /\ i \in 1..Len(owner.list)
    /\ LET shorter == SubSeq(owner.list, 1, i - 1)
                        \o SubSeq(owner.list, i + 1, Len(owner.list))
       IN  /\ owner' = Owner(shorter,
                             <<[op |-> "remove", record |-> owner.list[i]]>>,
                             owner.seen)
           /\ snippets' = kept_by_reference(snippets, shorter)
    /\ UNCHANGED <<query, threshold, results, scored, called, remembered>>

\* The caller keeps the outcome of the call just made.
Remember ==
    /\ called
    /\ remembered' = <<[query |-> query, threshold |-> threshold,
                        results |-> results, calls_since |-> 0]>>
    /\ UNCHANGED <<snippets, query, threshold, results, scored, called, owner>>

SearchNext ==
    /\ \E q \in QueryPool, t \in ThresholdPool : Search(q, t)
    /\ UNCHANGED <<varVars, hostVars>>

RepeatNext ==
    /\ \/ \E q \in QueryPool, t \in ThresholdPool : Search(q, t)
       \/ Remember
    /\ UNCHANGED <<varVars, hostVars>>

\* Calls on collections of up to MaxSnippets records.
SpecSearch == SearchInit /\ [][SearchNext]_vars

\* The same, with the caller keeping an earlier call to compare against.
SpecRepeat == RepeatInit /\ [][RepeatNext]_vars

\* Calls on a one-record collection, over every combination of field values.
SpecScore == ScoreInit /\ [][SearchNext]_vars

\* Records the host puts into and takes out of the searched list.
EditablePool ==
    { Snippet(<<"A", "b">>, <<>>, <<>>, <<"c">>),
      Snippet(<<"c">>, <<>>, <<>>, <<"a", "b">>),
      Snippet(<<"b", "a">>, <<"c">>, <<<<"b">>>>, <<>>) }

EditedInit == \E recs \in SeqsUpTo(EditablePool, MaxSnippets) : Constructed(recs)

EditedNext ==
    /\ \/ \E q \in QueryPool, t \in ThresholdPool : Search(q, t)
       \/ \E r \in EditablePool : HostAppend(r)
       \/ \E i \in 1..MaxSnippets : HostRemove(i)
    /\ UNCHANGED <<varVars, hostVars>>

\* Calls on a list that the host edits between the calls.
SpecEdited == EditedInit /\ [][EditedNext]_vars

\* Calls on a collection of records that differ in their tag lists only.
SpecTags == TagsInit /\ [][SearchNext]_vars

(***************************************************************************)
(* The substitution state machine.                                         *)
(***************************************************************************)
\* No search engine is in play.
SearchIdle ==
    /\ snippets = <<>>
    /\ query = <<>>
    /\ threshold = DEFAULT_THRESHOLD
    /\ results = <<>>
    /\ scored = 0
    /\ called = FALSE
    /\ remembered = <<>>
    /\ owner = Owner(<<>>, <<>>, <<>>)

SubstituteInit ==
    /\ template \in SeqsUpTo(PiecePool, MaxPieces)
    /\ content = Flatten(template)
    /\ values \in ValueMaps
    /\ outcome = [kind |-> "none", returned |-> <<>>, variable |-> <<>>]
    /\ detected = <<>>
    /\ SearchIdle
    /\ HostIdle

Substitute ==
    /\ outcome' = substitute_variables(content, values)
    /\ UNCHANGED <<template, content, values, detected>>

SubstituteNext == Substitute /\ UNCHANGED <<searchVars, hostVars>>

\* substitute_variables on contents of up to MaxPieces pieces.
SpecSubstitute == SubstituteInit /\ [][SubstituteNext]_vars

RenderInit ==
    /\ template \in SeqsUpTo(RenderPool, MaxPieces)
    /\ content = Flatten(template)
    /\ values \in RenderValueMaps
    /\ outcome = [kind |-> "none", returned |-> <<>>, variable |-> <<>>]
    /\ detected = <<>>
    /\ SearchIdle
    /\ HostIdle

\* substitute_variables on contents whose occurrences carry whitespace,
\* colons or braces, with values that may themselves hold an occurrence.
SpecRender == RenderInit /\ [][SubstituteNext]_vars

(***************************************************************************)
(* The detection state machine.                                            *)
(***************************************************************************)
DetectInit ==
    /\ template \in SeqsUpTo(DetectPool, MaxPieces)
    /\ content = Flatten(template)
    /\ values = <<>>
    /\ outcome = [kind |-> "none", returned |-> <<>>, variable |-> <<>>]
    /\ detected = <<>>
    /\ SearchIdle
    /\ HostIdle

Detect ==
    /\ detected' = <<detect_variables(content)>>
    /\ UNCHANGED <<template, content, values, outcome>>

DetectNext == Detect /\ UNCHANGED <<searchVars, hostVars>>

\* detect_variables on contents of up to MaxPieces pieces.
SpecDetect == DetectInit /\ [][DetectNext]_vars

(***************************************************************************)
(* The usage tracker state machine.                                        *)
(***************************************************************************)
IncrementInit == TrackerInit /\ SearchIdle /\ VarIdle /\ ManagerIdle /\ WatcherIdle /\ LockIdle /\ HotkeyIdle

IncrementNext ==
    /\ \/ \E t \in Threads, s \in TrackerIds : IncrementRead(t, s)
       \/ \E t \in Threads : IncrementStore(t)
    /\ UNCHANGED <<searchVars, varVars, managerVars, watcherVars, lockVars, hotkeyVars>>

\* Two threads calling increment, their steps interleaved in every way.
SpecIncrement == IncrementInit /\ [][IncrementNext]_vars

(***************************************************************************)
(* The snippet manager state machines.                                     *)
(***************************************************************************)
MaxEntries == 3

\* Entries with the ids x and x-1, and one without a name.
LoadEntryPool ==
    { Entry(<<"x">>, <<"n">>, <<"c">>),
      Entry(<<"x", "-", "1">>, <<"n">>, <<"c">>),
      Entry(<<"x">>, <<>>, <<"c">>) }

LoadFilePool ==
    {Missing, Unreadable, Malformed, NoSnippetsKey}
        \cup {Parsed(es) : es \in SeqsUpTo(LoadEntryPool, MaxEntries)}

LoadInit ==
    /\ \E f \in LoadFilePool : ManagerConstructed(f)
    /\ SearchIdle /\ VarIdle /\ TrackerIdle /\ WatcherIdle /\ LockIdle /\ HotkeyIdle

LoadNext ==
    /\ \/ \E f \in LoadFilePool : WriteFile(f)
       \/ Load
    /\ UNCHANGED <<searchVars, varVars, trackerVars, watcherVars, lockVars, hotkeyVars>>

\* load() calls on one manager while the host rewrites the file.
SpecLoad == LoadInit /\ [][LoadNext]_vars

\* Files for the backup rotation: none, one that cannot be read, and two
\* that differ.
BackupFilePool ==
    { Missing, Unreadable, Parsed(<<>>), Parsed(<<Entry(<<"x">>, <<"n">>, <<"c">>)>>) }

BackupInit ==
    /\ \E f \in BackupFilePool : ManagerConstructed(f)
    /\ SearchIdle /\ VarIdle /\ TrackerIdle /\ WatcherIdle /\ LockIdle /\ HotkeyIdle

BackupNext ==
    /\ \/ \E f \in BackupFilePool : WriteFile(f)
       \/ CreateBackup
    /\ UNCHANGED <<searchVars, varVars, trackerVars, watcherVars, lockVars, hotkeyVars>>

\* create_backup calls while the host rewrites the file.
SpecBackup == BackupInit /\ [][BackupNext]_vars

EditFilePool == { Missing, Unreadable, Parsed(<<Entry(<<"x">>, <<"n">>, <<"c">>)>>) }

EditIds == { <<"x">>, <<"x", "-", "1">> }

EditInit ==
    /\ \E f \in EditFilePool : ManagerConstructed(f)
    /\ SearchIdle /\ VarIdle /\ TrackerIdle /\ WatcherIdle /\ LockIdle /\ HotkeyIdle

EditNext ==
    /\ \/ \E f \in EditFilePool : WriteFile(f)
       \/ /\ Len(file.entries) < MaxEntries
          /\ AddSnippet(Entry(<<"x">>, <<"n">>, <<"c">>))
       \/ \E ids \in SUBSET EditIds : DeleteSnippets(ids)
       \/ /\ backups = <<>>
          /\ CreateBackup
    /\ UNCHANGED <<searchVars, varVars, trackerVars, watcherVars, lockVars, hotkeyVars>>

\* The operations that write the file, and one explicit backup by the host.
SpecEdit == EditInit /\ [][EditNext]_vars

(***************************************************************************)
(* The file watcher state machine.                                         *)
(***************************************************************************)
WatchFilePool ==
    { Parsed(<<>>),
      Parsed(<<Entry(<<"x">>, <<"n">>, <<"c">>)>>),
      Parsed(<<Entry(<<"y">>, <<"n">>, <<"c">>)>>) }

\* A manager that has loaded its file, then watch_file.
WatchInit ==
    /\ \E f \in WatchFilePool :
           /\ file = f
           /\ manager_snippets = loaded(f)
           /\ last_good_state = loaded(f)
    /\ backups = <<>>
    /\ call = [op |-> "none", result |-> "none", returned |-> <<>>]
    /\ replaced = FALSE
    /\ before = <<>>
    /\ WatcherStarted
    /\ SearchIdle /\ VarIdle /\ TrackerIdle /\ LockIdle /\ HotkeyIdle

WatchNext ==
    /\ \/ \E f \in WatchFilePool : Modify(f)
       \/ Tick /\ UNCHANGED managerVars
    /\ UNCHANGED <<searchVars, varVars, trackerVars, lockVars, hotkeyVars>>

\* Modifications of the watched file as time passes; time does pass.
SpecWatch == WatchInit /\ [][WatchNext]_vars /\ WF_clock(Tick)

(***************************************************************************)
(* The startup state machine.                                              *)
(***************************************************************************)
StartupInit ==
    /\ LockInit
    /\ SearchIdle /\ VarIdle /\ TrackerIdle /\ ManagerIdle /\ WatcherIdle
    /\ HotkeyIdle

StartupNext ==
    /\ \/ \E p \in StartingPids :
              \/ CheckLock(p)
              \/ ReadLock(p)
              \/ KillRecorded(p)
              \/ RemoveLock(p)
              \/ WriteLock(p)
       \/ \E p \in DOMAIN instances : Exit(p)
    /\ UNCHANGED <<searchVars, varVars, trackerVars, managerVars, watcherVars,
                   hotkeyVars>>

\* Keyboard events reaching a hotkey manager, for two configured hotkeys.
HotkeyPool == {<<"ctrl", "shift", "space">>, <<"ctrl", "alt", "k">>}

HotkeyInit ==
    /\ \E parts \in HotkeyPool : HotkeyConstructed(parts)
    /\ SearchIdle /\ VarIdle /\ TrackerIdle /\ ManagerIdle /\ WatcherIdle
    /\ LockIdle

HotkeyNext ==
    /\ \E key \in Keys : OnPress(key) \/ OnRelease(key)
    /\ UNCHANGED <<searchVars, varVars, trackerVars, managerVars, watcherVars,
                   lockVars>>

SpecHotkey == HotkeyInit /\ [][HotkeyNext]_vars

\* Two instances starting up, their steps interleaved in every way.
SpecStartup == StartupInit /\ [][StartupNext]_vars

(***************************************************************************)
(* Properties of the search engine.                                        *)
(***************************************************************************)
Fields == {"name", "description", "tags", "content"}

Weight(f) ==
    CASE f = "name"        -> WEIGHT_NAME
      [] f = "description" -> WEIGHT_DESCRIPTION
      [] f = "tags"        -> WEIGHT_TAGS
      [] f = "content"     -> WEIGHT_CONTENT

\* similarity(query, field) of the property statements.
Similarity(snippet, f, q) ==
    IF f = "tags"
      THEN RatMaxOf({partial_ratio(q, LowerStr(snippet.tags[i])) :
                        i \in DOMAIN snippet.tags})
      ELSE partial_ratio(q, LowerStr(snippet[f]))

Present(snippet) == {f \in Fields : snippet[f] # <<>>}

RECURSIVE WeightedSum(_, _, _)
WeightedSum(F, snippet, q) ==
    IF F = {} THEN Rat(0, 1)
    ELSE LET f == CHOOSE x \in F : TRUE
         IN  RatAdd(RatScale(Weight(f), Similarity(snippet, f, q)),
                    WeightedSum(F \ {f}, snippet, q))

RECURSIVE WeightSum(_)
WeightSum(F) ==
    IF F = {} THEN 0
    ELSE LET f == CHOOSE x \in F : TRUE IN Weight(f) + WeightSum(F \ {f})

\* round(S / W, 2) over the non-empty fields, in hundredths; 0 with no field.
ExpectedScore(snippet, q) ==
    LET F == Present(snippet)
        S == WeightedSum(F, snippet, q)
    IN  IF F = {} THEN 0 ELSE Round2(Rat(S.n, S.d * WeightSum(F)))

Count(seq, x) == Cardinality({k \in DOMAIN seq : seq[k] = x})

AllWhitespace(q) == \A i \in DOMAIN q : q[i] \in {" ", "\t", "\n"}

NonBlankCall == called /\ ~AllWhitespace(query)

\* C1: for a non-blank query the result holds exactly one {snippet, score}
\* entry for each record whose score is >= threshold and none for any other
\* record; it is the empty list when no record qualifies or there is none.
C1_ThresholdFilter ==
    NonBlankCall =>
        LET nq == normalize(query)
            qualifying == {i \in DOMAIN snippets :
                              calculate_snippet_score(snippets[i], nq) >= 100 * threshold}
        IN  /\ Len(results) = Cardinality(qualifying)
            /\ \A i \in DOMAIN snippets :
                   Count(results, [snippet |-> snippets[i],
                                   score |-> calculate_snippet_score(snippets[i], nq)])
                     = Cardinality({j \in qualifying : snippets[j] = snippets[i]})
            /\ \A k \in DOMAIN results :
                   \E i \in qualifying :
                       results[k] = [snippet |-> snippets[i],
                                     score |-> calculate_snippet_score(snippets[i], nq)]

\* A call that returns one record whose score equals the threshold and
\* leaves out the other record of the collection.
C1_Witness ==
    /\ NonBlankCall
    /\ Len(snippets) = 2
    /\ Len(results) = 1
    /\ results[1].score = 100 * threshold

\* C2: the score of a record is round(S / W, 2) with S the weighted
\* similarities and W the weights of its non-empty fields only; a record with
\* no field scores 0.0.
C2_WeightedAverage ==
    NonBlankCall =>
        /\ \A k \in DOMAIN results :
               results[k].score = ExpectedScore(results[k].snippet, normalize(query))
        /\ threshold <= 0 => Len(results) = Len(snippets)

\* A scored record with an empty field and two non-empty ones whose score is
\* a proper average (neither 0 nor 100).
C2_Witness ==
    /\ NonBlankCall
    /\ Len(results) = 1
    /\ results[1].snippet.name # <<>>
    /\ results[1].snippet.description = <<>>
    /\ results[1].snippet.tags # <<>>
    /\ results[1].score \notin {0, 10000}

\* C3: an empty or whitespace-only query returns the empty list, whatever the
\* collection and the threshold, and no record is scored.
C3_BlankQuery ==
    (called /\ AllWhitespace(query)) => (results = <<>> /\ scored = 0)

\* A whitespace-only query on a non-empty collection with threshold 0.
C3_Witness ==
    /\ called
    /\ query # <<>>
    /\ AllWhitespace(query)
    /\ threshold <= 0
    /\ snippets # <<>>
    /\ results = <<>>

\* C4: the returned list is ordered by score, descending.
C4_Descending ==
    \A i \in 1..(Len(results) - 1) : results[i].score >= results[i + 1].score

\* Two records returned in the reverse of their collection order.
C4_Witness ==
    /\ Len(snippets) = 2
    /\ Len(results) = 2
    /\ results[1].score > results[2].score
    /\ results[1].snippet = snippets[2]
    /\ results[2].snippet = snippets[1]

\* C5: for the same collection and query, every entry returned at the higher
\* threshold is returned, with the same score, at the lower threshold.
C5_ThresholdMonotone ==
    (remembered # <<>> /\ remembered[1].query = query) =>
        LET lo == IF remembered[1].threshold <= threshold
                    THEN remembered[1].results ELSE results
            hi == IF remembered[1].threshold <= threshold
                    THEN results ELSE remembered[1].results
        IN  \A k \in DOMAIN hi : Count(hi, hi[k]) <= Count(lo, hi[k])

\* The same non-blank query at a lower and then a higher threshold, the
\* higher one returning fewer records, but some.
C5_Witness ==
    /\ remembered # <<>>
    /\ remembered[1].query = query
    /\ NonBlankCall
    /\ remembered[1].threshold < threshold
    /\ Len(results) >= 1
    /\ Len(remembered[1].results) > Len(results)

\* C6: every returned score lies in [0, 100].
C6_ScoreBounds ==
    \A k \in DOMAIN results : results[k].score >= 0 /\ results[k].score <= 10000

\* A record with empty fields returned with the top score.
C6_Witness ==
    /\ Len(results) = 1
    /\ results[1].score = 10000
    /\ Present(results[1].snippet) # Fields
    /\ results[1].snippet.tags # <<>>

\* Two records that differ in name and content only, the query verbatim in
\* the name but not the content of the first, and in the content but not the
\* name of the second.
NameVersusContent(r1, r2, q) ==
    /\ r1.description = r2.description
    /\ r1.tags = r2.tags
    /\ Present(r1) = Present(r2)
    /\ Contains(LowerStr(r1.name), q)
    /\ ~Contains(LowerStr(r1.content), q)
    /\ Contains(LowerStr(r2.content), q)
    /\ ~Contains(LowerStr(r2.name), q)

\* The query is no closer to the second record's name than to the first
\* record's content, and at most 99 similar to that name.
ComparableMismatch(r1, r2, q) ==
    /\ ~RatLess(Similarity(r1, "content", q), Similarity(r2, "name", q))
    /\ ~RatLess(Rat(99, 1), Similarity(r2, "name", q))

DeclaredNames == {template[k].name : k \in {j \in DOMAIN template : template[j].kind = "var"}}

\* The default of the first occurrence of name (<<>> when it has none).
FirstDefault(name) ==
    LET first == CHOOSE k \in DOMAIN template :
                    /\ template[k].kind = "var" /\ template[k].name = name
                    /\ \A j \in 1..(k - 1) :
                           ~(template[j].kind = "var" /\ template[j].name = name)
    IN  template[first].default

\* The replacement of a declared variable by precedence: the provided value,
\* else the declared default; <<>> when there is neither.
Resolved(name) ==
    IF name \in DOMAIN values THEN <<values[name]>> ELSE FirstDefault(name)

Unresolvable == {name \in DeclaredNames : Resolved(name) = <<>>}

RECURSIVE Rendered(_)
Rendered(ps) ==
    IF ps = <<>> THEN <<>>
    ELSE (IF Head(ps).kind = "var" THEN Resolved(Head(ps).name)[1]
          ELSE Head(ps).text)
         \o Rendered(Tail(ps))

Substituted == outcome.kind # "none"

\* C9: each declared variable is replaced by values[name] when name is a key
\* of values, even if it has a default, and by its declared default
\* otherwise; a partial or empty values map gives provided values where
\* present and defaults elsewhere.
C9_ValueThenDefault ==
    (Substituted /\ Unresolvable = {}) =>
        outcome = [kind |-> "ok", returned |-> <<Rendered(template)>>, variable |-> <<>>]

\* A partial values map: one variable with a default takes its provided
\* value, another falls back to its default.
C9_Witness ==
    /\ outcome.kind = "ok"
    /\ \E i, j \in DOMAIN template :
           /\ template[i].kind = "var" /\ template[j].kind = "var"
           /\ template[i].default # <<>>
           /\ template[i].name \in DOMAIN values
           /\ values[template[i].name] # template[i].default[1]
           /\ template[j].default # <<>>
           /\ template[j].name \notin DOMAIN values
           /\ template[j].default = FirstDefault(template[j].name)

\* C10: when a declared variable has neither a key in values nor a declared
\* default, the call raises an error naming such a variable and returns no
\* string, wherever the variable occurs and whatever else could be resolved.
C10_MissingValueRaises ==
    (Substituted /\ Unresolvable # {}) =>
        /\ outcome.kind = "error"
        /\ outcome.returned = <<>>
        /\ outcome.variable # <<>>
        /\ outcome.variable[1] \in Unresolvable

\* The call raised for a variable that follows a resolvable one.
C10_Witness ==
    /\ outcome.kind = "error"
    /\ Len(template) >= 2
    /\ template[1].kind = "var"
    /\ Resolved(template[1].name) # <<>>
    /\ template[2].kind = "var"
    /\ template[2].name \in Unresolvable


(***************************************************************************)
(* Properties of substitute_variables on occurrences written in any way.   *)
(***************************************************************************)
\* A name of letters, digits and underscores.
Identifier(name) == name # <<>> /\ \A k \in DOMAIN name : name[k] \in NameChars

\* The pieces that declare a variable, and those whose name is no identifier.
VariablePieces(ps) ==
    {k \in DOMAIN ps : ps[k].kind = "var" /\ Identifier(Strip(ps[k].name))}

InvalidPieces(ps) ==
    {k \in DOMAIN ps : ps[k].kind = "var" /\ ~Identifier(Strip(ps[k].name))}

Declared == {Strip(template[k].name) : k \in VariablePieces(template)}

\* The first piece that declares name.
FirstPiece(name) ==
    template[CHOOSE k \in VariablePieces(template) :
                /\ Strip(template[k].name) = name
                /\ \A j \in VariablePieces(template) :
                       Strip(template[j].name) = name => k <= j]

\* The replacement of a declared variable: the provided value, else the
\* default of its first occurrence; <<>> when there is neither.
ResolvedValue(name) ==
    IF name \in DOMAIN values THEN <<values[name]>> ELSE FirstPiece(name).default

Unresolved == {name \in Declared : ResolvedValue(name) = <<>>}

\* The content with every declaring piece replaced by its variable's value
\* and every other piece as written.
RECURSIVE RenderedLiteral(_, _)
RenderedLiteral(ps, k) ==
    IF k > Len(ps) THEN <<>>
    ELSE (IF k \in VariablePieces(ps) THEN ResolvedValue(Strip(ps[k].name))[1]
          ELSE PieceText(ps[k]))
         \o RenderedLiteral(ps, k + 1)

\* Every declaring piece is written without whitespace around its name.
Canonical == \A k \in VariablePieces(template) : template[k].name = Strip(template[k].name)

\* No provided value holds a brace.
PlainValues == \A n \in DOMAIN values : CharSet(values[n]) \cap {"{", "}"} = {}

\* No written default holds a closing brace.
ClosingFreeDefaults ==
    \A k \in DOMAIN template :
        template[k].default = <<>> \/ "}" \notin CharSet(template[k].default[1])

\* Number of places where sub occurs in text.
Occurrences(text, sub) ==
    Cardinality({i \in 0..(Len(text) - Len(sub)) : Slice(text, i, i + Len(sub)) = sub})

NamesOf(variables) == {variables[k].name : k \in DOMAIN variables}

\* C11: when the substitution succeeds, every occurrence {{name}} and
\* {{name:TEXT}} of a declared variable is replaced by the variable's one
\* resolved value, whatever the default text TEXT is (equal to the first
\* occurrence's default or not, with colons or a single brace in it).
C11_EveryOccurrenceReplaced ==
    (Substituted /\ Canonical /\ PlainValues /\ Unresolved = {}) =>
        outcome = [kind |-> "ok", returned |-> <<RenderedLiteral(template, 1)>>,
                   variable |-> <<>>]

\* The call on {{a:x}y}} with a given: the occurrence is still in the output.
C11_Witness ==
    /\ content = <<"{", "{", "a", ":", "x", "}", "y", "}", "}">>
    /\ <<"a">> \in DOMAIN values
    /\ values[<<"a">>] = <<"1">>
    /\ outcome = Returned(content)

\* C12: replacement is literal: when the resolved value of a declared
\* variable a is the text {{b}} and b is declared in the same content, the
\* output contains that inserted text unchanged.
C12_NoRecursiveExpansion ==
    \A a \in Declared, b \in Declared :
        (/\ outcome.kind = "ok"
         /\ a # b
         /\ ResolvedValue(a) = << <<"{", "{">> \o b \o <<"}", "}">> >>)
        => Contains(outcome.returned[1], <<"{", "{">> \o b \o <<"}", "}">>)

\* The call on {{a}}{{b}} with a given as {{b}} and b as 1: the inserted
\* text was replaced in its turn.
C12_Witness ==
    /\ content = <<"{", "{", "a", "}", "}", "{", "{", "b", "}", "}">>
    /\ DOMAIN values = {<<"a">>, <<"b">>}
    /\ values[<<"a">>] = <<"{", "{", "b", "}", "}">>
    /\ values[<<"b">>] = <<"1">>
    /\ outcome = Returned(<<"1", "1">>)

C14_NoDeclaredVariableRemains ==
    (/\ outcome.kind = "ok"
     /\ ClosingFreeDefaults
     /\ \A n \in DOMAIN values : ~Contains(values[n], <<"{", "{">>))
    => NamesOf(detect_variables(content))
         \cap NamesOf(detect_variables(outcome.returned[1])) = {}

\* The call on {{ a }} with a given: the output is the content, and
\* detect_variables reports a on it again.
C14_Witness ==
    /\ content = <<"{", "{", " ", "a", " ", "}", "}">>
    /\ <<"a">> \in DOMAIN values
    /\ outcome = Returned(content)
    /\ <<"a">> \in NamesOf(detect_variables(outcome.returned[1]))

(***************************************************************************)
(* Properties of detect_variables.                                         *)
(***************************************************************************)
Detected == detected # <<>>

\* Position in the template of the first piece that declares name.
FirstIndex(name) ==
    CHOOSE k \in VariablePieces(template) :
        /\ Strip(template[k].name) = name
        /\ \A j \in VariablePieces(template) : Strip(template[j].name) = name => k <= j

\* The declarations the template was written with: one per variable, in the
\* order of the first occurrences, each with the default written there.
RECURSIVE FirstOccurrences(_, _, _)
FirstOccurrences(ps, k, seen) ==
    IF k > Len(ps) THEN <<>>
    ELSE IF k \in VariablePieces(ps) /\ Strip(ps[k].name) \notin seen
      THEN <<[name |-> Strip(ps[k].name), default |-> ps[k].default]>>
           \o FirstOccurrences(ps, k + 1, seen \cup {Strip(ps[k].name)})
    ELSE FirstOccurrences(ps, k + 1, seen)

\* C15: detect_variables returns each valid variable name exactly once, in
\* the order of the first occurrences in the content, and the default it
\* records is that of the first occurrence only.
C15_OncePerNameFirstWins ==
    Detected =>
        LET d == detected[1]
        IN  /\ NamesOf(d) = Declared
            /\ \A i, j \in DOMAIN d :
                   i < j => /\ d[i].name # d[j].name
                            /\ FirstIndex(d[i].name) < FirstIndex(d[j].name)
            /\ \A i \in DOMAIN d : d[i].default = FirstPiece(d[i].name).default

\* Two variables, the one declared first occurring again later with another
\* default.
C15_Witness ==
    /\ Detected
    /\ Len(detected[1]) = 2
    /\ \E i, j \in VariablePieces(template) :
           /\ i < j
           /\ Strip(template[i].name) = Strip(template[j].name)
           /\ template[i].default # template[j].default
           /\ detected[1][1].name = Strip(template[i].name)

\* C16: an occurrence is split at its first colon only: the name is the
\* trimmed text before it and the default the text after it as written,
\* untrimmed and with any further colons; the default is None exactly when
\* the occurrence has no colon, and {{a:}} has the empty default.
C16_SplitAtFirstColon ==
    Detected =>
        \A k \in VariablePieces(template) :
            k = FirstIndex(Strip(template[k].name)) =>
                \E i \in DOMAIN detected[1] :
                    LET var == detected[1][i]
                    IN  /\ var.name = Strip(template[k].name)
                        /\ var.default = template[k].default
                        /\ (var.default = <<>>)
                             <=> (":" \notin CharSet(PieceText(template[k])))

\* {{b:y:z}} and {{ a : x }} detected with the defaults "y:z" and " x ".
C16_Witness ==
    /\ Detected
    /\ \E i, j \in DOMAIN detected[1] :
           /\ detected[1][i].default = << <<"y", ":", "z">> >>
           /\ detected[1][j].name = <<"a">>
           /\ detected[1][j].default = << <<" ", "x", " ">> >>
    /\ \E k \in DOMAIN template : template[k].name = <<" ", "a", " ">>

C18_SpacedNamesDetected ==
    Detected =>
        \A k \in DOMAIN template :
            (/\ template[k].kind = "var"
             /\ Strip(template[k].name) # <<>>
             /\ CharSet(Strip(template[k].name)) \subseteq NameChars \cup {" "})
            => Strip(template[k].name) \in NamesOf(detected[1])

\* detect_variables on {{a b}} returned the empty list.
C18_Witness ==
    /\ content = <<"{", "{", "a", " ", "b", "}", "}">>
    /\ detected = << <<>> >>

\* C19: candidates may overlap: in {{{a}}} the candidate that starts at the
\* first brace is dropped as invalid and the one that starts at the second
\* brace is kept, so an occurrence with a single brace before it is detected
\* exactly as it is without that brace.
C19_TripleBrace ==
    (/\ Detected
     /\ \E k \in VariablePieces(template) :
            k > 1 /\ template[k - 1] = Text(<<"{">>))
    => detected[1] = FirstOccurrences(template, 1, {})

\* The content {{{a}}} followed by a space: exactly the variable a.
C19_Witness ==
    /\ content = <<"{", "{", "{", "a", "}", "}", "}", " ">>
    /\ detected = << <<[name |-> <<"a">>, default |-> <<>>]>> >>

\* C20: a candidate ends at the first "}}" after its start: {{a:{b:x}}}
\* gives exactly the variable a with the default "{b:x", and the inner "{b"
\* gives no variable of its own.
C20_EndsAtFirstClose ==
    (/\ Detected
     /\ \E k \in DOMAIN template :
            /\ template[k] = Var(<<"a">>, << <<"{", "b", ":", "x">> >>)
            /\ k = FirstIndex(<<"a">>))
    => /\ \E i \in DOMAIN detected[1] :
              detected[1][i] = [name |-> <<"a">>, default |-> << <<"{", "b", ":", "x">> >>]
       /\ NamesOf(detected[1]) = Declared

\* The content {{a:{b:x}}} followed by a space: one variable, a.
C20_Witness ==
    /\ content = <<"{", "{", "a", ":", "{", "b", ":", "x", "}", "}", "}", " ">>
    /\ detected = << <<[name |-> <<"a">>, default |-> << <<"{", "b", ":", "x">> >>]>> >>

(***************************************************************************)
(* Properties of UsageTracker.                                             *)
(***************************************************************************)
\* C21: increment is thread-safe: under every interleaving of the reads and
\* writes of concurrent increment calls no increment is lost, so once no
\* call is in progress each count equals its initial value plus the number
\* of increment calls made for that id.
C21_NoLostIncrement ==
    (\A t \in Threads : frames[t].pc = "idle") =>
        \A s \in TrackerIds :
            get_count(usage_counts, s) = get_count(initial_counts, s) + completed[s]

\* Two calls for s1 have returned and the count went up by one only.
C21_Witness ==
    /\ \A t \in Threads : frames[t].pc = "idle"
    /\ completed["s1"] = 2
    /\ get_count(usage_counts, "s1") = get_count(initial_counts, "s1") + 1

(***************************************************************************)
(* Properties of SnippetManager.                                           *)
(***************************************************************************)
IdsOf(list) == {list[k].id : k \in DOMAIN list}

\* The entries of the file that have the three required fields.
RECURSIVE ValidEntries(_)
ValidEntries(entries) ==
    IF entries = <<>> THEN <<>>
    ELSE (IF Head(entries).id # <<>> /\ Head(entries).name # <<>>
             /\ Head(entries).content # <<>>
            THEN <<Head(entries)>> ELSE <<>>)
         \o ValidEntries(Tail(entries))

\* id with "-k" appended.
Suffixed(id, k) == id \o <<"-">> \o int_to_text(k)

\* C22: after a load of a file that parses, the ids of the returned
\* snippets are pairwise distinct, whatever ids the file holds; a snippet
\* whose id is not taken by an earlier one keeps it, and one whose id is
\* taken gets "-k" appended for the first k = 1, 2, ... that is free.
C22_DistinctIds ==
    (call.op = "load" /\ before[1].file.kind = "parsed") =>
        LET list == call.returned
            written == ValidEntries(before[1].file.entries)
        IN  /\ Len(list) = Len(written)
            /\ \A i, j \in DOMAIN list : i # j => list[i].id # list[j].id
            /\ \A i \in DOMAIN list :
                   LET earlier == {list[j].id : j \in 1..(i - 1)}
                   IN  IF written[i].id \notin earlier
                         THEN list[i].id = written[i].id
                         ELSE \E k \in 1..Len(list) :
                                 /\ list[i].id = Suffixed(written[i].id, k)
                                 /\ \A h \in 1..(k - 1) :
                                        Suffixed(written[i].id, h) \in earlier

\* A file that writes x twice and then x-1: the generated x-1 collides with
\* the written one.
C22_Witness ==
    /\ call.op = "load" /\ call.result = "loaded"
    /\ Len(before[1].file.entries) = 3
    /\ before[1].file.entries[1].id = <<"x">>
    /\ before[1].file.entries[2].id = <<"x">>
    /\ before[1].file.entries[3].id = <<"x", "-", "1">>
    /\ Len(call.returned) = 3
    /\ call.returned[3].id = <<"x", "-", "1", "-", "1">>

\* C23: a load that finds the file malformed, without a "snippets" key or
\* unreadable does not raise and returns the list the most recent successful
\* load returned (the empty list if there was none), and leaves
\* manager.snippets and last_good_state as they were.
C23_FallbackToLastGood ==
    (call.op = "load" /\ before[1].file.kind \in {"malformed", "nokey", "unreadable"}) =>
        /\ call.result = "fallback"
        /\ call.returned = before[1].last_success
        /\ manager_snippets = before[1].snippets
        /\ last_good_state = before[1].last_good_state

\* A failed load after a successful one that returned snippets.
C23_Witness ==
    /\ call.op = "load" /\ call.result = "fallback"
    /\ before[1].file.kind = "unreadable"
    /\ call.returned # <<>>
    /\ call.returned = before[1].last_success

\* The backups expected after a rotation of bk: each one a number higher,
\* the one numbered 5 gone.
Shifted(bk) ==
    [k \in {j + 1 : j \in DOMAIN bk \cap 1..4} |-> bk[k - 1]]

C24_BackupBeforeWrite ==
    (call.op \in {"add", "delete"} /\ call.result = "ok") =>
        /\ 1 \in DOMAIN backups
        /\ backups[1] = before[1].file

\* add_snippet has written the file and no backup exists.
C24_Witness ==
    /\ call.op = "add" /\ call.result = "ok"
    /\ before[1].file.kind = "parsed"
    /\ file # before[1].file
    /\ backups = <<>>

(***************************************************************************)
(* Properties of the file watcher.                                         *)
(***************************************************************************)
\* The manager holds something else than the file's content.
Stale == manager_snippets # loaded(file)

\* C26: when the watched file is modified several times in rapid
\* succession, the reload callback is eventually invoked at or after the
\* last modification: whenever the manager's snippets are not those of the
\* file, they eventually are.
C26_EventuallyReloaded == Stale ~> ~Stale

\* Two reloads' worth of time after a burst of two modifications of which
\* only the first was reloaded: the manager still holds the old content.
C26_Witness ==
    /\ callbacks = 1
    /\ last_modified > last_reload
    /\ last_modified - last_reload <= DEBOUNCE_DELAY
    /\ clock > last_modified + DEBOUNCE_DELAY
    /\ Stale

(***************************************************************************)
(* Properties of the single-instance lock.                                 *)
(***************************************************************************)
\* The instances that are alive and past ensure_single_instance.
Established == {p \in DOMAIN instances : instances[p].alive /\ instances[p].pc = "done"}

\* C27: under every interleaving of the startup steps of two instances, at
\* most one instance is alive after having completed
\* ensure_single_instance, and the lock file then holds its PID.
C27_SingleInstance ==
    /\ Cardinality(Established) <= 1
    /\ \A p \in Established : lock_file = <<p>>

\* Both starting instances have completed and are alive.
C27_Witness == StartingPids \subseteq Established

(***************************************************************************)
(* Properties of the hotkey manager.                                       *)
(***************************************************************************)
\* The keys that count as the part of a hotkey.
Variants(part) ==
    CASE part = "ctrl"  -> {"ctrl_l", "ctrl_r"}
      [] part = "shift" -> {"shift", "shift_r"}
      [] part = "alt"   -> {"alt_l", "alt_r"}
      [] OTHER          -> {part}

\* Every part of the registered hotkey is held, in one variant or another.
HotkeyHeld ==
    \A i \in 1..Len(hotkey_string) : Variants(hotkey_string[i]) \cap current_keys # {}

\* C28: a key press emits hotkey_pressed exactly when, the press recorded,
\* the held keys match the registered hotkey, whatever combination is
\* configured; nothing is emitted while a key of the combination is not held.
C28_EmitsOnRegisteredHotkey ==
    signal.kind = "press" => (signal.emitted <=> HotkeyHeld)

\* The combination ctrl+alt+k is registered and a press has completed it.
C28_Witness ==
    /\ hotkey_string = <<"ctrl", "alt", "k">>
    /\ signal.kind = "press"
    /\ HotkeyHeld

(***************************************************************************)
(* Properties of the scoring of tags.                                      *)
(***************************************************************************)
Entries == {results[i] : i \in 1..Len(results)}

TagSet(snippet) == {snippet.tags[i] : i \in 1..Len(snippet.tags)}

SameButTags(r1, r2) == [r1 EXCEPT !.tags = <<>>] = [r2 EXCEPT !.tags = <<>>]

\* The result entries of the record of e under one of e's tags alone.
SingleTagEntries(e) ==
    {s \in Entries : /\ SameButTags(s.snippet, e.snippet)
                     /\ Len(s.snippet.tags) = 1
                     /\ s.snippet.tags[1] \in TagSet(e.snippet)}

\* Every record was returned by a call with a query.
AllReturned == called /\ ~is_blank(query) /\ Len(results) = Len(snippets)

\* C29: the tags count through the best-matching tag only, once: a record
\* scores what it scores under its best tag alone, and records that differ
\* only in the order or repetition of their tags score the same.
C29_BestTagOnly ==
    AllReturned =>
        \A e \in Entries :
            /\ \A f \in Entries :
                   (SameButTags(e.snippet, f.snippet)
                    /\ TagSet(e.snippet) = TagSet(f.snippet))
                   => e.score = f.score
            /\ (\A t \in TagSet(e.snippet) :
                   \E s \in SingleTagEntries(e) : s.snippet.tags = <<t>>)
               => /\ \E s \in SingleTagEntries(e) : s.score = e.score
                  /\ \A s \in SingleTagEntries(e) : s.score <= e.score

\* Two tags that score differently on their own are given in both orders.
C29_Witness ==
    /\ AllReturned
    /\ \E e, f \in Entries :
          /\ SameButTags(e.snippet, f.snippet)
          /\ TagSet(e.snippet) = TagSet(f.snippet)
          /\ e.snippet.tags # f.snippet.tags
          /\ \E s1, s2 \in SingleTagEntries(e) : s1.score < s2.score

(***************************************************************************)
(* Properties of the engine's view of the host's list.                     *)
(***************************************************************************)
ResultSnippets == [i \in 1..Len(results) |-> results[i].snippet]

\* How often a call made now returns the record r: as often as the host's
\* list holds it, if it passes at all.
Due(r) ==
    IF is_blank(query) THEN 0
    ELSE IF passes(calculate_snippet_score(r, normalize(query)), threshold)
         THEN Count(owner.list, r)
         ELSE 0

\* C30: the engine holds the host's list itself and keeps nothing between
\* calls: the call just made returned the passing records of the list as the
\* host has left it, a record appended before the call among them and a
\* removed one not, and the list is as the host left it.
C30_ScansCurrentList ==
    /\ snippets = owner.list
    /\ (called /\ owner.pending = <<>>) =>
          \A r \in EditablePool \cup {results[i].snippet : i \in 1..Len(results)} :
              Count(ResultSnippets, r) = Due(r)

\* The call just made followed an append of a record the list did not hold
\* or the removal of a record's last occurrence, and the record is in the
\* results, respectively would have been had it stayed.
C30_Witness ==
    /\ called /\ owner.pending = <<>> /\ ~is_blank(query)
    /\ owner.seen # <<>>
    /\ LET r == owner.seen[1].record
       IN  /\ passes(calculate_snippet_score(r, normalize(query)), threshold)
           /\ \/ owner.seen[1].op = "append" /\ Count(ResultSnippets, r) = 1
              \/ owner.seen[1].op = "remove" /\ Count(ResultSnippets, r) = 0

=============================================================================
